---- MODULE Spec2Model ----
(***************************************************************************)
(* A model of primordius (src/primordius.go): an aggregator that holds an  *)
(* ordered list of sources and a target struct, Process which applies the  *)
(* sources in order under a mutex, the optional reload goroutine started   *)
(* by NewWithReload, Stop, and the environment source's reflection-driven  *)
(* ToTarget.                                                               *)
(*                                                                         *)
(* Strings are sequences of one-character strings, so that name            *)
(* concatenation (prefix + tag) and decimal parsing are computed.          *)
(***************************************************************************)
EXTENDS Integers, Sequences, FiniteSets, TLC

VARIABLES
    \* ---- the aggregator (type Primordius) and its goroutines
    reload,         \* TRUE: built by NewWithReload, FALSE: built by New
    pool,           \* the sources the callers of this behaviour register
    target,         \* the field values of the struct pr.target points to
    sources,        \* pr.sources
    m,              \* pr.m: "free" or the goroutine holding the lock
    pc,             \* position of every goroutine
    loc,            \* locals of a goroutine inside Process
    consumed,       \* the io.Readers that have been read to EOF
    cancelled,      \* ctx.Done() is closed
    tickerStopped,  \* pr.t.Stop() was called
    tickPending,    \* a tick is buffered in pr.t.C
    onceDone,       \* pr.once has run
    panicked,       \* a goroutine panicked
    ops,            \* foreground operations started so far
    ticks,          \* ticks delivered so far
    prev,           \* the last completed Process: its sources, result, target
    \* ---- one environment source applied to one specification value
    prefix,         \* es.prefix
    tkind,          \* what was passed as spec
    environ,        \* the process environment
    sval,           \* the field values of the struct passed
    sbefore,        \* the field values before ToTarget was called
    ret             \* "pending" before the call, then ToTarget's result

aggVars == <<reload, pool, target, sources, m, pc, loc, consumed, cancelled,
             tickerStopped, tickPending, onceDone, panicked, ops, ticks, prev>>
envVars == <<prefix, tkind, environ, sval, sbefore, ret>>
vars == <<aggVars, envVars>>

(***************************************************************************)
(* Bounds                                                                  *)
(***************************************************************************)
MaxSources == 2     \* longest source list
MaxOps == 3         \* foreground operations per behaviour
MaxTicks == 2       \* ticks per behaviour
MaxSetenv == 2      \* environment variables set before the env source runs

(***************************************************************************)
(* strconv and reflect, as far as envSource.ToTarget uses them             *)
(***************************************************************************)
Digits == {"0", "1", "2", "3", "4", "5", "6", "7", "8", "9"}

DigitVal(c) ==
    CASE c = "0" -> 0 [] c = "1" -> 1 [] c = "2" -> 2 [] c = "3" -> 3
      [] c = "4" -> 4 [] c = "5" -> 5 [] c = "6" -> 6 [] c = "7" -> 7
      [] c = "8" -> 8 [] c = "9" -> 9

RECURSIVE DecimalOf(_)
DecimalOf(s) ==
    IF s = <<>> THEN 0
    ELSE 10 * DecimalOf(SubSeq(s, 1, Len(s) - 1)) + DigitVal(s[Len(s)])

\* The bitSize argument the integer cases pass to strconv.
ParseBitSize == 64

\* The model's integers stay below 2^31, so every number a model string
\* denotes fits a width of 31 bits or more.
Pow2(n) == 2 ^ n
ExceedsUnsigned(n, bits) == bits < 31 /\ n > Pow2(bits) - 1
ExceedsSigned(neg, n, bits) ==
    bits < 31 /\ IF neg THEN n > Pow2(bits - 1) ELSE n >= Pow2(bits - 1)

\* strconv.ParseUint(s, 10, bitSize): no sign, digits only.
ParseUint(s, bitSize) ==
    IF s = <<>> \/ \E i \in 1..Len(s) : s[i] \notin Digits
    THEN [err |-> "ErrSyntax", v |-> 0]
    ELSE IF ExceedsUnsigned(DecimalOf(s), bitSize)
    THEN [err |-> "ErrRange", v |-> Pow2(bitSize) - 1]
    ELSE [err |-> "nil", v |-> DecimalOf(s)]

\* strconv.ParseInt(s, 10, bitSize): an optional sign, then ParseUint.
ParseInt(s, bitSize) ==
    IF s = <<>> THEN [err |-> "ErrSyntax", v |-> 0]
    ELSE
      LET neg == s[1] = "-"
          body == IF s[1] \in {"+", "-"} THEN Tail(s) ELSE s
          digitsOk == body # <<>> /\ \A i \in 1..Len(body) : body[i] \in Digits
          un == DecimalOf(body)
      IN IF ~digitsOk THEN [err |-> "ErrSyntax", v |-> 0]
         ELSE IF ExceedsSigned(neg, un, bitSize)
         THEN [err |-> "ErrRange", v |-> 0]
         ELSE [err |-> "nil", v |-> IF neg THEN 0 - un ELSE un]

\* strconv.ParseBool
ParseBool(s) ==
    IF s \in {<<"1">>, <<"t">>, <<"T">>, <<"t","r","u","e">>,
              <<"T","R","U","E">>, <<"T","r","u","e">>}
    THEN [err |-> "nil", v |-> TRUE]
    ELSE IF s \in {<<"0">>, <<"f">>, <<"F">>, <<"f","a","l","s","e">>,
                   <<"F","A","L","S","E">>, <<"F","a","l","s","e">>}
    THEN [err |-> "nil", v |-> FALSE]
    ELSE [err |-> "ErrSyntax", v |-> FALSE]

\* Field kinds and their widths in bits.
SignedKinds == {"int", "int8", "int16", "int32", "int64"}
UnsignedKinds == {"uint", "uint8", "uint16", "uint32", "uint64"}

BitsOf(kind) ==
    CASE kind \in {"int8", "uint8"} -> 8
      [] kind \in {"int16", "uint16"} -> 16
      [] kind \in {"int32", "uint32"} -> 32
      [] OTHER -> 64

\* reflect.Value.SetInt: the int64 is converted to the field's type, which
\* keeps the low bits.
SetInt(kind, v) ==
    IF BitsOf(kind) >= 31 THEN v
    ELSE LET w == Pow2(BitsOf(kind))
             low == v % w
         IN IF low >= w \div 2 THEN low - w ELSE low

\* reflect.Value.SetUint: likewise.
SetUint(kind, v) ==
    IF BitsOf(kind) >= 31 THEN v ELSE v % Pow2(BitsOf(kind))

(***************************************************************************)
(* envSource.ToTarget                                                      *)
(***************************************************************************)
\* es.prefix + tagVal, the name looked up in the environment.
EnvNameNoPrefix(pre, tag) == tag
EnvName(pre, tag) == pre \o tag

\* The fields the loop skips before looking at the environment.
TagSkipped(tag) == tag = <<>> \/ tag = <<"-">>

\* The switch on f.Kind() for one field whose variable is set to val:
\* the field's new value and the error returned, if any.
SetField(kind, old, val) ==
    CASE kind = "string" -> [v |-> val, err |-> "nil"]
      [] kind \in SignedKinds ->
           LET r == ParseInt(val, ParseBitSize)
           IN IF r.err # "nil" THEN [v |-> old, err |-> r.err]
              ELSE [v |-> SetInt(kind, r.v), err |-> "nil"]
      [] kind \in UnsignedKinds ->
           LET r == ParseUint(val, ParseBitSize)
           IN IF r.err # "nil" THEN [v |-> old, err |-> r.err]
              ELSE [v |-> SetUint(kind, r.v), err |-> "nil"]
      [] kind = "bool" ->
           LET r == ParseBool(val)
           IN IF r.err # "nil" THEN [v |-> old, err |-> r.err]
              ELSE [v |-> r.v, err |-> "nil"]
      [] kind = "bytes" -> [v |-> val, err |-> "nil"]
      [] OTHER -> [v |-> old, err |-> "nil"]

\* The loop over the struct's fields from field i on; an error returns at
\* once and leaves the later fields alone.
RECURSIVE EnvFields(_, _, _, _, _)
EnvFields(pre, env, typ, val, i) ==
    IF i > Len(typ) THEN [val |-> val, err |-> "nil"]
    ELSE IF TagSkipped(typ[i].tag) \/ EnvName(pre, typ[i].tag) \notin DOMAIN env
    THEN EnvFields(pre, env, typ, val, i + 1)
    ELSE LET r == SetField(typ[i].kind, val[i], env[EnvName(pre, typ[i].tag)])
         IN IF r.err # "nil" THEN [val |-> val, err |-> r.err]
            ELSE EnvFields(pre, env, typ, [val EXCEPT ![i] = r.v], i + 1)

\* envSource.ToTarget(spec): spec must be a pointer to a struct.
EnvToTarget(pre, env, kindOfSpec, typ, val) ==
    IF kindOfSpec # "ptrStruct"
    THEN [val |-> val, err |-> "ErrInvalidSpecification"]
    ELSE EnvFields(pre, env, typ, val, 1)

(***************************************************************************)
(* EnvSpec: the environment is set up, then one environment source is      *)
(* applied to one specification value.                                     *)
(***************************************************************************)
\* The struct passed: a string, two narrow integers, and two fields the
\* source must skip.
EnvType ==
    << [kind |-> "string", tag |-> <<"K">>],
       [kind |-> "int8",   tag |-> <<"N">>],
       [kind |-> "uint8",  tag |-> <<"U">>],
       [kind |-> "string", tag |-> <<>>],
       [kind |-> "int8",   tag |-> <<"-">>] >>

EnvDefaults == << <<"d">>, 5, 5, <<"d">>, 5 >>

Prefixes == { <<>>, <<"P">> }
SpecKinds == {"ptrStruct", "struct", "ptrOther"}

EnvNames ==
    { <<"K">>, <<"N">>, <<"U">>, <<"-">>,
      <<"P", "K">>, <<"P", "N">>, <<"P", "U">>, <<"P", "-">>, <<"P">> }

EnvValues ==
    { <<"7">>, <<"1", "2", "8">>, <<"3", "0", "0">>, <<"-", "1">>,
      <<"x">>, <<>> }

\* The aggregator's variables, idle, for the specifications that do not
\* use them.
AggIdle ==
    /\ reload = FALSE
    /\ pool = {}
    /\ target = <<>>
    /\ sources = <<>>
    /\ m = "free"
    /\ pc = <<>>
    /\ loc = <<>>
    /\ consumed = {}
    /\ cancelled = FALSE
    /\ tickerStopped = FALSE
    /\ tickPending = FALSE
    /\ onceDone = FALSE
    /\ panicked = FALSE
    /\ ops = 0
    /\ ticks = 0
    /\ prev = <<>>

EnvInit ==
    /\ AggIdle
    /\ prefix \in Prefixes
    /\ tkind \in SpecKinds
    /\ environ = <<>>
    /\ sval = EnvDefaults
    /\ sbefore = EnvDefaults
    /\ ret = "pending"

\* os.Setenv(name, value), before the source runs.
Setenv(name, value) ==
    /\ ret = "pending"
    /\ Cardinality(DOMAIN environ \cup {name}) <= MaxSetenv
    /\ environ' = [n \in DOMAIN environ \cup {name} |->
                     IF n = name THEN value ELSE environ[n]]
    /\ UNCHANGED <<prefix, tkind, sval, sbefore, ret>>
    /\ UNCHANGED aggVars

\* (&envSource{prefix}).ToTarget(spec)
CallEnvToTarget ==
    /\ ret = "pending"
    /\ LET r == EnvToTarget(prefix, environ, tkind, EnvType, sval)
       IN /\ sval' = r.val
          /\ ret' = r.err
    /\ sbefore' = sval
    /\ UNCHANGED <<prefix, tkind, environ>>
    /\ UNCHANGED aggVars

EnvNext ==
    \/ \E name \in EnvNames, value \in EnvValues : Setenv(name, value)
    \/ CallEnvToTarget

EnvSpec == EnvInit /\ [][EnvNext]_vars

(***************************************************************************)
(* The document sources.  Decoding is the decoder libraries' work: a       *)
(* document is its decoded form, the fields it names with their values,    *)
(* or it is malformed, or it is empty (a reader at EOF).                   *)
(***************************************************************************)
\* The target struct of the aggregator: a string and a small unsigned.
CfgType ==
    << [kind |-> "string", tag |-> <<"K">>],
       [kind |-> "uint8",  tag |-> <<"N">>] >>

CfgDefaults == << <<"d">>, 0 >>
CfgFields == 1..2

\* A document: per field, <<>> when the key is absent, <<v>> when present.
Doc(key, num) == [syntax |-> "ok", fields |-> <<key, num>>]
Malformed == [syntax |-> "bad", fields |-> <<>>]
Empty == [syntax |-> "empty", fields |-> <<>>]

\* A decoder that builds a fresh struct and copies it over the target.
UnmarshalZeroing(format, content, val) ==
    IF content.syntax # "ok" THEN [val |-> val, err |-> "ErrDecode"]
    ELSE [val |-> [f \in DOMAIN val |->
                     IF content.fields[f] # <<>> THEN content.fields[f][1]
                     ELSE IF CfgType[f].kind = "string" THEN <<>> ELSE 0],
          err |-> "nil"]

\* json.Unmarshal / yaml.Unmarshal of content into the struct: the keys
\* present are stored, the other fields are left alone.  Empty input is an
\* error for JSON ("unexpected end of JSON input") and a no-op for YAML.
Unmarshal(format, content, val) ==
    CASE content.syntax = "bad" -> [val |-> val, err |-> "ErrDecode"]
      [] content.syntax = "empty" ->
           [val |-> val,
            err |-> IF format = "json" THEN "ErrUnexpectedEOF" ELSE "nil"]
      [] OTHER ->
           [val |-> [f \in DOMAIN val |->
                       IF content.fields[f] = <<>> THEN val[f]
                       ELSE content.fields[f][1]],
            err |-> "nil"]

\* The files on disk and the process environment while the aggregator
\* runs; neither changes.
Files == [n \in {"cfg.yaml"} |-> Doc(<<>>, <<1>>)]

OsEnv ==
    [n \in { <<"P", "K">>, <<"P", "N">>, <<"K">>, <<"N">> } |->
       CASE n = <<"P", "K">> -> <<"e">>
         [] n = <<"P", "N">> -> <<"7">>
         [] n = <<"K">> -> <<"c">>
         [] n = <<"N">> -> <<"x">>]

\* The sources a caller may register, by name.
Pool ==
    [id \in {"json", "yamlfile", "nofile", "jsonreader", "yamlreader",
             "envP", "env", "badyaml"} |->
       CASE id = "json" ->
              [kind |-> "content", format |-> "json",
               content |-> Doc(<< <<"a">> >>, <<>>)]
         [] id = "yamlfile" ->
              [kind |-> "file", format |-> "yaml", name |-> "cfg.yaml"]
         [] id = "nofile" ->
              [kind |-> "file", format |-> "json", name |-> "missing.json"]
         [] id = "jsonreader" ->
              [kind |-> "reader", format |-> "json",
               content |-> Doc(<< <<"b">> >>, <<>>)]
         [] id = "yamlreader" ->
              [kind |-> "reader", format |-> "yaml",
               content |-> Doc(<<>>, <<2>>)]
         [] id = "envP" -> [kind |-> "env", prefix |-> <<"P">>]
         [] id = "env" -> [kind |-> "env", prefix |-> <<>>]
         [] id = "badyaml" ->
              [kind |-> "content", format |-> "yaml", content |-> Malformed]]

SourceIds == DOMAIN Pool

\* io.ReadAll(r): everything the first time, nothing once r is at EOF.
ReadAll(id, used) == IF id \in used THEN Empty ELSE Pool[id].content

\* s.ToTarget(pr.target) for the registered source id: the struct's new
\* values, the error, and the readers at EOF afterwards.
ToTarget(id, val, used) ==
    LET s == Pool[id]
    IN CASE s.kind = "content" ->
              LET r == Unmarshal(s.format, s.content, val)
              IN [val |-> r.val, err |-> r.err, used |-> used]
         [] s.kind = "file" ->
              IF s.name \notin DOMAIN Files
              THEN [val |-> val, err |-> "ErrNotExist", used |-> used]
              ELSE LET r == Unmarshal(s.format, Files[s.name], val)
                   IN [val |-> r.val, err |-> r.err, used |-> used]
         [] s.kind = "reader" ->
              LET r == Unmarshal(s.format, ReadAll(id, used), val)
              IN [val |-> r.val, err |-> r.err, used |-> used \cup {id}]
         [] s.kind = "env" ->
              LET r == EnvToTarget(s.prefix, OsEnv, "ptrStruct", CfgType, val)
              IN [val |-> r.val, err |-> r.err, used |-> used]

(***************************************************************************)
(* The aggregator                                                          *)
(***************************************************************************)
Callers == {"c1", "c2"}
Threads == Callers \cup {"bg"}

\* The locals of a goroutine that is not inside Process.
NoLoc == [i |-> 0, snap |-> <<>>, start |-> <<>>, log |-> <<>>, res |-> "nil"]
NoPrev == [by |-> "none", srcs |-> <<>>, res |-> "nil", tgt |-> <<>>]

\* The environment source's variables, idle.
EnvIdle ==
    /\ prefix = <<>>
    /\ tkind = "ptrStruct"
    /\ environ = <<>>
    /\ sval = <<>>
    /\ sbefore = <<>>
    /\ ret = "pending"

\* New leaves cf a function that does nothing; NewWithReload stores the
\* context's cancel function.
NewCfNil == "nil"
NewCf == "noop"

\* New(target) or NewWithReload(target, d); the latter starts the goroutine.
Created ==
    /\ EnvIdle
    /\ reload \in BOOLEAN
    /\ target = CfgDefaults
    /\ sources = <<>>
    /\ m = "free"
    /\ pc = [t \in Threads |->
               IF t \in Callers THEN "idle"
               ELSE IF reload THEN "select" ELSE "none"]
    /\ loc = [t \in Threads |-> NoLoc]
    /\ consumed = {}
    /\ cancelled = FALSE
    /\ tickerStopped = FALSE
    /\ tickPending = FALSE
    /\ onceDone = FALSE
    /\ panicked = FALSE
    /\ ops = 0
    /\ ticks = 0
    /\ prev = NoPrev

Init == Created /\ pool = SourceIds

\* pr.m.Lock() returns for goroutine t only while nobody holds the lock.
CanLockAlways(t) == TRUE
CanLock(t) == m = "free"

\* Where a goroutine goes when Process has returned res: a caller is done,
\* the reload goroutine discards the result and selects again.
AfterProcessQuitOnError(t, res) ==
    IF t \in Callers THEN "idle"
    ELSE IF res = "nil" THEN "select" ELSE "exited"
AfterProcess(t, res) == IF t \in Callers THEN "idle" ELSE "select"

\* Process, first part: take the lock and evaluate the range expression.
ProcessEnter(t) ==
    /\ CanLock(t)
    /\ m' = t
    /\ IF sources = <<>>
       THEN /\ pc' = [pc EXCEPT ![t] = "unlock"]
            /\ loc' = [loc EXCEPT ![t] = [NoLoc EXCEPT !.start = target]]
       ELSE /\ pc' = [pc EXCEPT ![t] = "loop"]
            /\ loc' = [loc EXCEPT ![t] =
                         [i |-> 1, snap |-> sources, start |-> target,
                          log |-> <<>>, res |-> "nil"]]
    /\ UNCHANGED <<reload, pool, target, sources, consumed, cancelled,
                   tickerStopped, tickPending, onceDone, panicked, ticks, prev>>

\* A caller calls Process.
CallProcess(c) ==
    /\ pc[c] = "idle"
    /\ ops < MaxOps
    /\ ops' = ops + 1
    /\ ProcessEnter(c)
    /\ UNCHANGED envVars

\* Whether the loop is over after the i-th of n sources returned err: an
\* error returns at once, the last source ends the range.
LoopEndsIgnoringError(err, i, n) == i = n
LoopEnds(err, i, n) == err # "nil" \/ i = n

\* Process, one iteration of the loop: the next source writes into the
\* target.
ProcessStep(t) ==
    /\ pc[t] = "loop"
    /\ LET l == loc[t]
           id == l.snap[l.i]
           r == ToTarget(id, target, consumed)
           entry == [src |-> id, fresh |-> id \notin consumed,
                     after |-> r.val, err |-> r.err]
       IN /\ target' = r.val
          /\ consumed' = r.used
          /\ IF LoopEnds(r.err, l.i, Len(l.snap))
             THEN /\ pc' = [pc EXCEPT ![t] = "unlock"]
                  /\ loc' = [loc EXCEPT ![t].log = Append(l.log, entry),
                                        ![t].res = r.err]
             ELSE /\ pc' = pc
                  /\ loc' = [loc EXCEPT ![t].log = Append(l.log, entry),
                                        ![t].i = l.i + 1]
    /\ UNCHANGED <<reload, pool, sources, m, cancelled, tickerStopped,
                   tickPending, onceDone, panicked, ops, ticks, prev>>
    /\ UNCHANGED envVars

\* Process, last part: the deferred Unlock, and the return.
ProcessReturn(t) ==
    /\ pc[t] = "unlock"
    /\ m' = "free"
    /\ pc' = [pc EXCEPT ![t] = AfterProcess(t, loc[t].res)]
    /\ prev' = [by |-> t, srcs |-> loc[t].snap, res |-> loc[t].res,
                tgt |-> target]
    /\ loc' = [loc EXCEPT ![t] = NoLoc]
    /\ UNCHANGED <<reload, pool, target, sources, consumed, cancelled,
                   tickerStopped, tickPending, onceDone, panicked, ops, ticks>>
    /\ UNCHANGED envVars

\* AddSource(s), and with it every FromX method.
AddSource(c, id) ==
    /\ pc[c] = "idle"
    /\ ops < MaxOps
    /\ Len(sources) < MaxSources
    /\ CanLock(c)
    /\ sources' = Append(sources, id)
    /\ ops' = ops + 1
    /\ prev' = NoPrev
    /\ UNCHANGED <<reload, pool, target, m, pc, loc, consumed, cancelled,
                   tickerStopped, tickPending, onceDone, panicked, ticks>>
    /\ UNCHANGED envVars

\* ResetSources()
ResetSources(c) ==
    /\ pc[c] = "idle"
    /\ ops < MaxOps
    /\ CanLock(c)
    /\ sources' = <<>>
    /\ ops' = ops + 1
    /\ prev' = NoPrev
    /\ UNCHANGED <<reload, pool, target, m, pc, loc, consumed, cancelled,
                   tickerStopped, tickPending, onceDone, panicked, ticks>>
    /\ UNCHANGED envVars

\* Stop(): once, cancel the context and stop the ticker if there is one.
\* A tick already buffered in the ticker's channel stays there or is
\* discarded, depending on the toolchain's timer implementation.
Stop(c) ==
    /\ pc[c] = "idle"
    /\ ops < MaxOps
    /\ ops' = ops + 1
    /\ IF onceDone
       THEN UNCHANGED <<onceDone, cancelled, tickerStopped, tickPending,
                        panicked>>
       ELSE /\ onceDone' = TRUE
            /\ cancelled' = reload
            /\ panicked' = (~reload /\ NewCf = "nil")
            /\ tickerStopped' = reload
            /\ \E stale \in BOOLEAN : tickPending' = (tickPending /\ stale)
    /\ UNCHANGED <<reload, pool, target, sources, m, pc, loc, consumed, ticks,
                   prev>>
    /\ UNCHANGED envVars

\* The ticker fires: a tick is buffered, or dropped when one already is.
Tick ==
    /\ reload
    /\ ~tickerStopped
    /\ ticks < MaxTicks
    /\ ticks' = ticks + 1
    /\ tickPending' = TRUE
    /\ UNCHANGED <<reload, pool, target, sources, m, pc, loc, consumed,
                   cancelled, tickerStopped, onceDone, panicked, ops, prev>>
    /\ UNCHANGED envVars

\* A select that has no case for ctx.Done().
BgDoneMissing == FALSE /\ UNCHANGED vars

\* The goroutine's select, case <-ctx.Done(): return.
BgDone ==
    /\ pc["bg"] = "select"
    /\ cancelled
    /\ pc' = [pc EXCEPT !["bg"] = "exited"]
    /\ UNCHANGED <<reload, pool, target, sources, m, loc, consumed, cancelled,
                   tickerStopped, tickPending, onceDone, panicked, ops, ticks,
                   prev>>
    /\ UNCHANGED envVars

\* The goroutine's select, case <-p.t.C: the tick is received and Process
\* is called.
BgTick ==
    /\ pc["bg"] = "select"
    /\ tickPending
    /\ tickPending' = FALSE
    /\ pc' = [pc EXCEPT !["bg"] = "lock"]
    /\ UNCHANGED <<reload, pool, target, sources, m, loc, consumed, cancelled,
                   tickerStopped, onceDone, panicked, ops, ticks, prev>>
    /\ UNCHANGED envVars

\* The goroutine's Process gets the lock.
BgProcess ==
    /\ pc["bg"] = "lock"
    /\ ProcessEnter("bg")
    /\ UNCHANGED ops
    /\ UNCHANGED envVars

Next ==
    \/ \E c \in Callers : CallProcess(c)
    \/ \E t \in Threads : ProcessStep(t)
    \/ \E t \in Threads : ProcessReturn(t)
    \/ \E c \in Callers, id \in pool : AddSource(c, id)
    \/ \E c \in Callers : ResetSources(c)
    \/ \E c \in Callers : Stop(c)
    \/ Tick
    \/ BgDone
    \/ BgTick
    \/ BgProcess

Spec == Init /\ [][Next]_vars

\* The scheduling the liveness claims rest on: every source's ToTarget
\* returns, a goroutine holding the lock releases it, the runtime's mutex
\* hands the lock to a goroutine that keeps waiting for it, and a select
\* with a ready case proceeds.
Fairness ==
    /\ WF_vars(\E t \in Threads : ProcessStep(t))
    /\ WF_vars(\E t \in Threads : ProcessReturn(t))
    /\ SF_vars(BgProcess)
    /\ WF_vars(BgDone \/ BgTick)

\* For the liveness claims the callers register one source that succeeds
\* and one that fails: what the goroutine does next depends on a source
\* only through the error it returns.
LivePool == {"json", "nofile"}

FairInit == Created /\ pool = LivePool

FairSpec == FairInit /\ [][Next]_vars /\ Fairness

(***************************************************************************)
(* What the claims speak of                                                *)
(***************************************************************************)
InProcess(t) == pc[t] \in {"loop", "unlock"}

SetMax(S) == CHOOSE x \in S : \A y \in S : y <= x

\* The sources a Process invocation has invoked so far, in order.
Invoked(t) == [k \in 1..Len(loc[t].log) |-> loc[t].log[k].src]

\* The document a content, file or reader source holds, if it holds one.
HeldDoc(id) ==
    CASE Pool[id].kind = "file" ->
           IF Pool[id].name \in DOMAIN Files THEN Files[Pool[id].name]
           ELSE Malformed
      [] Pool[id].kind = "env" -> Malformed
      [] OTHER -> Pool[id].content

\* Whether the source invoked in log entry e supplies field f: its document
\* names the field (and its reader had not been read before), or the
\* field's variable is set to something the field's kind can hold.
Supplies(e, f) ==
    IF Pool[e.src].kind = "env"
    THEN LET name == Pool[e.src].prefix \o CfgType[f].tag
         IN /\ name \in DOMAIN OsEnv
            /\ CfgType[f].kind = "string"
                 \/ (OsEnv[name] # <<>> /\
                     \A i \in 1..Len(OsEnv[name]) : OsEnv[name][i] \in Digits)
    ELSE /\ Pool[e.src].kind = "reader" => e.fresh
         /\ HeldDoc(e.src).syntax = "ok"
         /\ HeldDoc(e.src).fields[f] # <<>>

\* The value it supplies.
Supplied(e, f) ==
    IF Pool[e.src].kind = "env"
    THEN LET v == OsEnv[Pool[e.src].prefix \o CfgType[f].tag]
         IN IF CfgType[f].kind = "string" THEN v ELSE DecimalOf(v)
    ELSE HeldDoc(e.src).fields[f][1]

\* Field f holds what the last of the entries 1..n of log that supplies it
\* wrote, or what it held at start when none does.
LastWins(log, n, start, f) ==
    LET W == {k \in 1..n : Supplies(log[k], f)}
    IN IF W = {} THEN target[f] = start[f]
       ELSE target[f] = Supplied(log[SetMax(W)], f)

\* C1: when Process is about to return nil, it has invoked exactly the
\* registered sources, each once, in registration order, and every field
\* of the target holds the value of the last-registered source that
\* supplies it, or its value from before Process when no source does.
C1_LastRegisteredWins ==
    \A t \in Threads :
        (pc[t] = "unlock" /\ loc[t].res = "nil") =>
            /\ Invoked(t) = sources
            /\ \A f \in CfgFields :
                   LastWins(loc[t].log, Len(loc[t].log), loc[t].start, f)

\* Process returns nil after two sources wrote the same field, and a field
\* neither of them names still holds its default.
C1_Witness ==
    \E t \in Threads :
        /\ pc[t] = "unlock" /\ loc[t].res = "nil"
        /\ sources = <<"envP", "json">>
        /\ target = << <<"a">>, 7 >>

\* C2: only the last source invoked can have failed; when one fails the
\* loop is over and Process returns exactly that error, having invoked the
\* sources before it once each, in order, and none after it; what the
\* earlier sources wrote is still in the target.
C2_FirstErrorStops ==
    \A t \in Threads :
        InProcess(t) =>
            LET log == loc[t].log
                n == Len(log)
            IN /\ \A k \in 1..(n - 1) : log[k].err = "nil"
               /\ (n > 0 /\ log[n].err # "nil") =>
                      /\ pc[t] = "unlock"
                      /\ loc[t].res = log[n].err
               /\ (pc[t] = "unlock" /\ loc[t].res # "nil") =>
                      /\ n > 0
                      /\ loc[t].res = log[n].err
                      /\ Invoked(t) = SubSeq(sources, 1, n)
                      /\ \A f \in CfgFields :
                             ~Supplies(log[n], f) =>
                                 LastWins(log, n - 1, loc[t].start, f)

\* Process returns the second source's error with the first source's write
\* kept.
C2_Witness ==
    \E t \in Threads :
        /\ pc[t] = "unlock"
        /\ loc[t].res = "ErrNotExist"
        /\ sources = <<"json", "nofile">>
        /\ Len(loc[t].log) = 2
        /\ target[1] = <<"a">>

\* C7: at most one goroutine is inside Process, it holds the lock, and the
\* source list it iterates is the list as registered: nobody has changed it
\* since the loop began.
C7_MutualExclusion ==
    /\ Cardinality({t \in Threads : InProcess(t)}) <= 1
    /\ \A t \in Threads :
           InProcess(t) =>
               /\ m = t
               /\ loc[t].snap = sources

\* A caller is in the middle of the loop while the reload goroutine, its
\* tick received, waits for the lock.
C7_Witness ==
    /\ pc["bg"] = "lock"
    /\ \E c \in Callers : pc[c] = "loop" /\ loc[c].i = 2

\* C3 as claimed: once Stop has returned on an instance with reload, the
\* reload goroutine receives no tick, gets the lock for no Process, and
\* writes nothing into the target.
C3_NoReloadAfterStop ==
    [][(reload /\ onceDone) =>
          /\ ~(pc["bg"] = "select" /\ pc'["bg"] = "lock")
          /\ ~(pc["bg"] = "lock" /\ pc'["bg"] # "lock")
          /\ (pc["bg"] = "loop" => target' = target)]_vars

\* C5: a Stop never changes the target or the source list and never
\* panics; on an instance built by New, and when Stop has run before, it
\* changes nothing of the context, the ticker, the lock, the goroutines or
\* the readers either, and the caller is back where it was.
C5_StopFrame ==
    [][(\E c \in Callers : Stop(c)) =>
          /\ target' = target
          /\ sources' = sources
          /\ ~panicked'
          /\ (~reload \/ onceDone) =>
                 UNCHANGED <<cancelled, tickerStopped, tickPending, m, pc,
                             loc, consumed, prev>>]_vars

\* Stop has run on an instance built by New whose target and source list
\* hold something to preserve.
C5_Witness ==
    /\ ~reload
    /\ onceDone
    /\ ~panicked
    /\ sources # <<>>
    /\ target # CfgDefaults

\* C8 as claimed: a Process that follows another one, with no source
\* registered or removed in between and files and environment unchanged,
\* returns what the first returned and leaves the target as the first left
\* it.
C8_ProcessIdempotent ==
    \A t \in Threads :
        (pc[t] = "unlock" /\ prev.by # "none" /\ prev.srcs = loc[t].snap) =>
            /\ loc[t].res = prev.res
            /\ target = prev.tgt

\* C4: a tick the reload goroutine has received leads to a Process that
\* runs to its return; that Process invokes the sources registered when it
\* runs, all of them unless one fails; and whatever it returns, the
\* goroutine goes back to its select.
C4_TickLeadsToProcess ==
    /\ [](pc["bg"] = "lock" => <>(pc["bg"] = "unlock"))
    /\ [](pc["bg"] = "unlock" =>
            /\ Invoked("bg") = SubSeq(sources, 1, Len(loc["bg"].log))
            /\ loc["bg"].res = "nil" => Len(loc["bg"].log) = Len(sources))
    /\ [][pc["bg"] = "unlock" => pc'["bg"] \in {"unlock", "select"}]_vars

\* The goroutine has received a tick after its previous Process returned an
\* error, with a source registered after construction.
C4_Witness ==
    /\ pc["bg"] = "lock"
    /\ prev.by = "bg"
    /\ prev.res # "nil"
    /\ ~onceDone

\* C9: after Stop on an instance with reload, the goroutine exits.
C9_GoroutineExits ==
    (reload /\ onceDone) ~> (pc["bg"] = "exited")

\* Stop has returned while the goroutine is inside Process.
C9_Witness ==
    /\ reload
    /\ onceDone
    /\ pc["bg"] = "loop"

(***************************************************************************)
(* The environment source alone (EnvSpec)                                  *)
(***************************************************************************)
\* C6: given anything but a pointer to a struct the source returns
\* ErrInvalidSpecification and writes nothing.  Given a pointer to a
\* struct, every field whose tag is empty or "-", and every field whose
\* variable prefix + tag is not set, holds what it held before the call;
\* and the string field holds the value of the variable named prefix + tag
\* when that one is set.
C6_EnvFrame ==
    ret # "pending" =>
        IF tkind # "ptrStruct"
        THEN ret = "ErrInvalidSpecification" /\ sval = sbefore
        ELSE /\ ret # "ErrInvalidSpecification"
             /\ \A i \in 1..Len(EnvType) :
                    LET tag == EnvType[i].tag
                    IN /\ (tag = <<>> \/ tag = <<"-">>
                             \/ prefix \o tag \notin DOMAIN environ) =>
                              sval[i] = sbefore[i]
                       /\ (i = 1 /\ prefix \o tag \in DOMAIN environ) =>
                              sval[i] = environ[prefix \o tag]

\* The source ran with prefix "P": the variable K, set without the prefix,
\* and the variable "P-" were not read, the defaults survive, and N was
\* read from PN.
C6_Witness ==
    /\ ret = "nil"
    /\ tkind = "ptrStruct"
    /\ prefix = <<"P">>
    /\ DOMAIN environ = { <<"K">>, <<"P", "N">> }
    /\ sval[1] = <<"d">>
    /\ sval[2] = 7
    /\ sval[5] = 5

\* The integer a decimal string denotes, for the strings that denote one.
IsDecimal(s) ==
    /\ s # <<>>
    /\ LET body == IF s[1] \in {"+", "-"} THEN Tail(s) ELSE s
       IN body # <<>> /\ \A i \in 1..Len(body) : body[i] \in Digits

Denoted(s) ==
    IF s[1] = "-" THEN 0 - DecimalOf(Tail(s))
    ELSE IF s[1] = "+" THEN DecimalOf(Tail(s))
    ELSE DecimalOf(s)

\* C10 as claimed: when the source returns nil, every integer field whose
\* variable is set holds exactly the integer the variable's string denotes.
C10_IntegerExact ==
    (ret = "nil" /\ tkind = "ptrStruct") =>
        \A i \in 1..Len(EnvType) :
            LET tag == EnvType[i].tag
                name == prefix \o tag
            IN (/\ EnvType[i].kind \in SignedKinds \cup UnsignedKinds
                /\ tag # <<>> /\ tag # <<"-">>
                /\ name \in DOMAIN environ) =>
                   /\ IsDecimal(environ[name])
                   /\ sval[i] = Denoted(environ[name])

====
